---------------------------- MODULE Spec2Model ----------------------------
(***************************************************************************)
(* Model of the Snowflake RAG scripts:                                     *)
(*   add_embeddings_to_snowflake.py  (ingestion: read, chunk, insert)      *)
(*   ask_snowflake_rag.py            (query: retrieve, complete)           *)
(*                                                                         *)
(* Texts are sequences of one-character strings.  The store is the pair of *)
(* tables doc_contents / document_embeddings, kept as sequences of rows in *)
(* insertion order.                                                        *)
(***************************************************************************)
EXTENDS Integers, Sequences, FiniteSets, TLC

VARIABLES
    \* ---- the chunker called on its own
    text,           \* the input text
    paragraphs,     \* the value returned by chunk_document_by_paragraphs
    cpc,            \* "input" before the call, "returned" after it
    \* ---- the store (committed rows, in insertion order)
    doc_contents,         \* rows [file_name, content]
    document_embeddings,  \* rows [id, filename, chunk_id, document_text]
    ddl,                  \* the objects created so far: database, schema, tables
    \* ---- one ingestion run per writer (functions over Writers)
    pc,             \* where the run is
    entry,          \* "main": main(); "api": insert_embeddings called directly
    dirSeen,        \* the documents directory as read_documents finds it
    documents,      \* the (filename, text) pairs of the run
    idx,            \* position of the for loop over documents (1-based)
    chunks,         \* chunks of the document being inserted
    chunk_id,       \* position of the for loop over chunks (1-based)
    total_chunks,
    inserted_docs,
    skipped_docs,
    report,         \* the lines printed per pair: Skipped / Inserted
    conn,           \* "none", "open" or "closed"
    autocommit,     \* the session's AUTOCOMMIT setting
    txDocs,         \* rows written to doc_contents in the open transaction
    txEmbs,         \* rows written to document_embeddings in the open transaction
    outcome,        \* how the run ended ("" while it runs)
    rolledBack,     \* conn.rollback() was executed in this run
    \* ---- history, for stating properties
    before,         \* the store as it was when the run started
    rerun,          \* the run repeats the input of the run before it, which committed
    \* ---- one query run (the Get answer button)
    qpc,
    question,
    top_k,
    qconn,          \* "none", "open" or "closed"
    retrieved,      \* retrieve_similar_chunks has returned
    qchunks,        \* the rows it returned
    completeCalls,  \* calls of SNOWFLAKE.CORTEX.COMPLETE in this run
    qraise,         \* an exception is propagating
    shown           \* what the page shows: "", "warning", "no_chunks", "answer", "error"

chunkVars == <<text, paragraphs, cpc>>
storeVars == <<doc_contents, document_embeddings, ddl>>
ctlVars   == <<pc, entry, dirSeen, outcome, rolledBack>>
loopVars  == <<documents, idx, chunks, chunk_id>>
countVars == <<total_chunks, inserted_docs, skipped_docs, report>>
connVars  == <<conn, autocommit>>
txVars    == <<txDocs, txEmbs>>
histVars  == <<before, rerun>>
queryVars == <<qpc, question, top_k, qconn, retrieved, qchunks, completeCalls,
               qraise, shown>>
ingestVars == <<ctlVars, loopVars, countVars, connVars, txVars, histVars>>
vars == <<chunkVars, storeVars, ingestVars, queryVars>>

---------------------------------------------------------------------------
(* Bounds *)

\* longest text given to the chunker on its own
MaxLen == 5

\* longest list a direct caller passes to insert_embeddings
MaxDocs == 2

\* largest Top K chosen on the page (the slider goes from 1 to 10)
MaxTopK == 2

---------------------------------------------------------------------------
(* Characters and texts *)

NL == "\n"
SP == " "

\* the characters texts are built from: two letters and two kinds of whitespace
Alphabet == {"a", "b", SP, NL}

\* what \s matches and what str.strip() removes
IsSpace(c) == c \in {SP, NL}

SetMin(S) == CHOOSE x \in S : \A y \in S : x <= y
SetMax(S) == CHOOSE x \in S : \A y \in S : x >= y

\* str.strip(): drop leading and trailing whitespace
Strip(s) ==
    LET keep == {k \in 1..Len(s) : ~IsSpace(s[k])}
    IN  IF keep = {} THEN <<>> ELSE SubSeq(s, SetMin(keep), SetMax(keep))

\* texts of length 0..n over the alphabet
TextsUpTo(n) == UNION {[1..k -> Alphabet] : k \in 0..n}

---------------------------------------------------------------------------
(* chunk_document_by_paragraphs *)

\* a wrong separator: \n\n+ , which does not see a blank line holding spaces
MatchEndNoSpace(t, i) ==
    IF t[i] # NL \/ i = Len(t) \/ t[i + 1] # NL THEN 0
    ELSE SetMax({e \in (i + 1)..Len(t) : \A j \in (i + 1)..e : t[j] = NL})

\* The regular expression \n\s*\n+ tried at position i of t: 0 when it does
\* not match there, otherwise the position of the last character matched.
\* \s* is greedy and gives characters back until \n+ can start; \n+ is greedy.
MatchEnd(t, i) ==
    IF t[i] # NL THEN 0
    ELSE LET Ks == {k \in 0..(Len(t) - i - 1) :
                        /\ \A j \in (i + 1)..(i + k) : IsSpace(t[j])
                        /\ t[i + k + 1] = NL}
         IN  IF Ks = {} THEN 0
             ELSE LET k == SetMax(Ks)
                      Ms == {m \in 1..(Len(t) - i - k) :
                                \A j \in (i + k + 1)..(i + k + m) : t[j] = NL}
                  IN  i + k + SetMax(Ms)

\* re.split: scan from pos for the leftmost match; segStart is where the
\* segment being collected began
RECURSIVE ReSplitFrom(_, _, _)
ReSplitFrom(t, pos, segStart) ==
    IF pos > Len(t) THEN <<SubSeq(t, segStart, Len(t))>>
    ELSE IF MatchEnd(t, pos) > 0
         THEN <<SubSeq(t, segStart, pos - 1)>>
                \o ReSplitFrom(t, MatchEnd(t, pos) + 1, MatchEnd(t, pos) + 1)
         ELSE ReSplitFrom(t, pos + 1, segStart)

ReSplit(t) == ReSplitFrom(t, 1, 1)

\* [paragraph.strip() for paragraph in paragraphs if paragraph.strip()]
chunk_document_by_paragraphs(t) ==
    LET parts == ReSplit(t)
        kept  == SelectSeq(parts, LAMBDA p : Strip(p) # <<>>)
    IN  [k \in 1..Len(kept) |-> Strip(kept[k])]

---------------------------------------------------------------------------
(* The documents directory, the inputs and the rows *)

Writers == {1, 2}

Files == {"f1.txt", "f2.txt"}

\* file contents as they are on disk, before read_documents strips them
BlankText == <<SP, NL>>
OneParagraph == <<"a">>
TwoParagraphs == <<SP, "a", NL, NL, "b">>
RawTexts == {BlankText, OneParagraph, TwoParagraphs}

\* marks a file that is not in the directory
Absent == <<"absent">>

NoDirectory == [exists |-> FALSE, files |-> [f \in Files |-> Absent]]

DirStates ==
    {NoDirectory}
        \cup {[exists |-> TRUE, files |-> m] : m \in [Files -> RawTexts \cup {Absent}]}

\* the orders in which a set can be listed
Orderings(S) ==
    {s \in [1..Cardinality(S) -> S] : \A i, j \in 1..Cardinality(S) : s[i] = s[j] => i = j}

\* read_documents without the "if content" test: empty documents are kept
read_documents_keep_empty(d) ==
    Orderings({<<f, Strip(d.files[f])>> : f \in {g \in Files : d.files[g] # Absent}})

\* read_documents on an existing directory: the lists it can return (glob
\* lists the files in no fixed order); each file's content is stripped and a
\* file whose stripped content is empty is left out
read_documents(d) ==
    Orderings({<<f, Strip(d.files[f])>> :
                 f \in {g \in Files : d.files[g] # Absent /\ Strip(d.files[g]) # <<>>}})

\* the texts a direct caller of insert_embeddings passes: one without any
\* paragraph and one with two
ApiTexts == {BlankText, Strip(TwoParagraphs)}

\* the lists a direct caller of insert_embeddings may pass
ApiInputs == UNION {[1..n -> Files \X ApiTexts] : n \in 0..MaxDocs}

\* f"{filename}_chunk_{chunk_id}"
RowId(f, k) == <<f, "_chunk_", k>>

\* a row of doc_contents (file_id and created_at are filled by the store)
DocRow(f, t) == [file_name |-> f, content |-> t]

\* a row of document_embeddings; the store computes the embedding column from
\* document_text (EMBED_TEXT_768), so the row is determined by these fields
EmbRow(f, k, c) == [id |-> RowId(f, k), filename |-> f, chunk_id |-> k, document_text |-> c]

Store == [docs |-> doc_contents, embs |-> document_embeddings, ddl |-> ddl]

---------------------------------------------------------------------------
(* The session: what a statement sees and where a write goes *)

\* the rows of doc_contents a statement of writer r sees: the committed rows
\* only, not the rows its own open transaction wrote
VisibleDocsCommittedOnly(r) == doc_contents

\* the rows of doc_contents a statement of writer r sees: the committed rows
\* and the rows its own open transaction wrote
VisibleDocs(r) == doc_contents \o txDocs[r]

\* the existence test run against the wrong table
AlreadyStoredInEmbeddings(r, f) ==
    \E k \in 1..Len(document_embeddings \o txEmbs[r]) :
        (document_embeddings \o txEmbs[r])[k].filename = f

\* SELECT 1 FROM doc_contents WHERE file_name = %s LIMIT 1; cursor.fetchone()
AlreadyStored(r, f) ==
    \E k \in 1..Len(VisibleDocs(r)) : VisibleDocs(r)[k].file_name = f

\* a commit that drops the pending rows the table already holds
CommitRowsDistinct(committed, pending) ==
    committed \o SelectSeq(pending,
                   LAMBDA row : \A k \in 1..Len(committed) : committed[k] # row)

\* conn.commit(): the pending rows become committed rows.  The store does not
\* enforce the PRIMARY KEY / UNIQUE declarations of the two tables.
CommitRows(committed, pending) == committed \o pending

\* INSERT INTO doc_contents: committed at once under autocommit, otherwise
\* pending in the open transaction
WriteDoc(r, row) ==
    IF autocommit[r]
    THEN /\ doc_contents' = Append(doc_contents, row)
         /\ UNCHANGED txDocs
    ELSE /\ txDocs' = [txDocs EXCEPT ![r] = Append(@, row)]
         /\ UNCHANGED doc_contents

\* INSERT INTO document_embeddings
WriteEmb(r, row) ==
    IF autocommit[r]
    THEN /\ document_embeddings' = Append(document_embeddings, row)
         /\ UNCHANGED txEmbs
    ELSE /\ txEmbs' = [txEmbs EXCEPT ![r] = Append(@, row)]
         /\ UNCHANGED document_embeddings

---------------------------------------------------------------------------
(* An ingestion run: main() of add_embeddings_to_snowflake.py *)

\* no writer has started a run
WritersIdle ==
    /\ pc = [r \in Writers |-> "idle"]
    /\ entry = [r \in Writers |-> "main"]
    /\ dirSeen = [r \in Writers |-> NoDirectory]
    /\ documents = [r \in Writers |-> <<>>]
    /\ idx = [r \in Writers |-> 1]
    /\ chunks = [r \in Writers |-> <<>>]
    /\ chunk_id = [r \in Writers |-> 1]
    /\ total_chunks = [r \in Writers |-> 0]
    /\ inserted_docs = [r \in Writers |-> 0]
    /\ skipped_docs = [r \in Writers |-> 0]
    /\ report = [r \in Writers |-> <<>>]
    /\ conn = [r \in Writers |-> "none"]
    /\ autocommit = [r \in Writers |-> TRUE]
    /\ txDocs = [r \in Writers |-> <<>>]
    /\ txEmbs = [r \in Writers |-> <<>>]
    /\ outcome = [r \in Writers |-> ""]
    /\ rolledBack = [r \in Writers |-> FALSE]
    /\ before = [r \in Writers |-> Store]
    /\ rerun = [r \in Writers |-> FALSE]

\* an account in which nothing has been created yet
IngestInit ==
    /\ doc_contents = <<>>
    /\ document_embeddings = <<>>
    /\ ddl = {}
    /\ WritersIdle

\* for documents: the loop goes on with pair n, or is over and commit follows
LoopHead(n, docs) == IF n > Len(docs) THEN "commit" ELSE "exists"

\* the state of a run that has not done anything yet
FreshRun(r) ==
    /\ idx' = [idx EXCEPT ![r] = 1]
    /\ chunks' = [chunks EXCEPT ![r] = <<>>]
    /\ chunk_id' = [chunk_id EXCEPT ![r] = 1]
    /\ total_chunks' = [total_chunks EXCEPT ![r] = 0]
    /\ inserted_docs' = [inserted_docs EXCEPT ![r] = 0]
    /\ skipped_docs' = [skipped_docs EXCEPT ![r] = 0]
    /\ report' = [report EXCEPT ![r] = <<>>]
    /\ txDocs' = [txDocs EXCEPT ![r] = <<>>]
    /\ txEmbs' = [txEmbs EXCEPT ![r] = <<>>]
    /\ rolledBack' = [rolledBack EXCEPT ![r] = FALSE]
    /\ before' = [before EXCEPT ![r] = Store]

\* main() up to the connection: documents = read_documents() raises
\* FileNotFoundError when the directory is missing; if not documents: return
EnterMain(r, d, again) ==
    /\ FreshRun(r)
    /\ entry' = [entry EXCEPT ![r] = "main"]
    /\ dirSeen' = [dirSeen EXCEPT ![r] = d]
    /\ rerun' = [rerun EXCEPT ![r] = again]
    /\ conn' = [conn EXCEPT ![r] = "none"]
    /\ autocommit' = [autocommit EXCEPT ![r] = TRUE]
    /\ IF ~d.exists
       THEN /\ outcome' = [outcome EXCEPT ![r] = "dir_missing"]
            /\ pc' = [pc EXCEPT ![r] = "done"]
            /\ documents' = [documents EXCEPT ![r] = <<>>]
       ELSE \E docs \in read_documents(d) :
               /\ documents' = [documents EXCEPT ![r] = docs]
               /\ IF docs = <<>>
                  THEN /\ outcome' = [outcome EXCEPT ![r] = "no_documents"]
                       /\ pc' = [pc EXCEPT ![r] = "done"]
                  ELSE /\ outcome' = [outcome EXCEPT ![r] = ""]
                       /\ pc' = [pc EXCEPT ![r] = "connect"]
    /\ UNCHANGED <<chunkVars, storeVars, queryVars>>

\* the script is started with the documents directory in state d
StartMain(r, d) ==
    /\ pc[r] = "idle"
    /\ EnterMain(r, d, FALSE)

\* snowflake.connector.connect(**connect_kwargs) succeeds.  connect_kwargs
\* holds no autocommit entry, so the session takes the account's AUTOCOMMIT
\* parameter: on (the default) or off.  With SNOWFLAKE_WAREHOUSE set (wh) a
\* USE WAREHOUSE statement follows before the connection is returned.
Connect(r) ==
    /\ pc[r] = "connect"
    /\ \E ac \in BOOLEAN, wh \in BOOLEAN :
          /\ autocommit' = [autocommit EXCEPT ![r] = ac]
          /\ pc' = [pc EXCEPT ![r] =
                        IF wh THEN "use_warehouse" ELSE "ensure_database_and_schema"]
    /\ conn' = [conn EXCEPT ![r] = "open"]
    /\ UNCHANGED <<chunkVars, storeVars, entry, dirSeen, outcome, rolledBack,
                   loopVars, countVars, txVars, histVars, queryVars>>

\* connect raises: main prints the error and returns
ConnectFail(r) ==
    /\ pc[r] = "connect"
    /\ outcome' = [outcome EXCEPT ![r] = "connect_error"]
    /\ pc' = [pc EXCEPT ![r] = "done"]
    /\ UNCHANGED <<chunkVars, storeVars, entry, dirSeen, rolledBack, loopVars,
                   countVars, connVars, txVars, histVars, queryVars>>

\* USE WAREHOUSE succeeds; get_snowflake_connection returns conn
UseWarehouse(r) ==
    /\ pc[r] = "use_warehouse"
    /\ pc' = [pc EXCEPT ![r] = "ensure_database_and_schema"]
    /\ UNCHANGED <<chunkVars, storeVars, entry, dirSeen, outcome, rolledBack,
                   loopVars, countVars, connVars, txVars, histVars, queryVars>>

\* USE WAREHOUSE raises: the finally closes the cursor only, the exception
\* leaves get_snowflake_connection, main prints it and returns
UseWarehouseFail(r) ==
    /\ pc[r] = "use_warehouse"
    /\ outcome' = [outcome EXCEPT ![r] = "connect_error"]
    /\ pc' = [pc EXCEPT ![r] = "done"]
    /\ UNCHANGED <<chunkVars, storeVars, entry, dirSeen, rolledBack, loopVars,
                   countVars, connVars, txVars, histVars, queryVars>>

\* ensure_database_and_schema: its four statements succeed
EnsureDatabaseAndSchema(r) ==
    /\ pc[r] = "ensure_database_and_schema"
    /\ ddl' = ddl \cup {"database", "schema"}
    /\ pc' = [pc EXCEPT ![r] = "create_tables"]
    /\ UNCHANGED <<chunkVars, doc_contents, document_embeddings, entry, dirSeen,
                   outcome, rolledBack, loopVars, countVars, connVars, txVars,
                   histVars, queryVars>>

\* statement k of ensure_database_and_schema raises (CREATE DATABASE, USE
\* DATABASE, CREATE SCHEMA, USE SCHEMA): main closes the connection and returns
EnsureDatabaseAndSchemaFail(r) ==
    /\ pc[r] = "ensure_database_and_schema"
    /\ \E k \in 1..4 :
          ddl' = ddl \cup (IF k >= 2 THEN {"database"} ELSE {})
                     \cup (IF k = 4 THEN {"schema"} ELSE {})
    /\ outcome' = [outcome EXCEPT ![r] = "schema_error"]
    /\ conn' = [conn EXCEPT ![r] = "closed"]
    /\ pc' = [pc EXCEPT ![r] = "done"]
    /\ UNCHANGED <<chunkVars, doc_contents, document_embeddings, entry, dirSeen,
                   rolledBack, loopVars, countVars, autocommit, txVars,
                   histVars, queryVars>>

\* create_doc_contents_table_if_not_exists, create_embeddings_table_if_not_exists
\* succeed; insert_embeddings is entered
CreateTables(r) ==
    /\ pc[r] = "create_tables"
    /\ ddl' = ddl \cup {"doc_contents", "document_embeddings"}
    /\ pc' = [pc EXCEPT ![r] = LoopHead(1, documents[r])]
    /\ UNCHANGED <<chunkVars, doc_contents, document_embeddings, entry, dirSeen,
                   outcome, rolledBack, loopVars, countVars, connVars, txVars,
                   histVars, queryVars>>

\* the first or the second CREATE TABLE raises: main closes the connection
CreateTablesFail(r) ==
    /\ pc[r] = "create_tables"
    /\ \E k \in 1..2 : ddl' = ddl \cup (IF k = 2 THEN {"doc_contents"} ELSE {})
    /\ outcome' = [outcome EXCEPT ![r] = "table_error"]
    /\ conn' = [conn EXCEPT ![r] = "closed"]
    /\ pc' = [pc EXCEPT ![r] = "done"]
    /\ UNCHANGED <<chunkVars, doc_contents, document_embeddings, entry, dirSeen,
                   rolledBack, loopVars, countVars, autocommit, txVars,
                   histVars, queryVars>>

---------------------------------------------------------------------------
(* insert_embeddings *)

\* insert_embeddings(conn, documents) called directly, on a connection the
\* caller opened, with any list of pairs
EnterApi(r, docs, ac, again) ==
    /\ FreshRun(r)
    /\ entry' = [entry EXCEPT ![r] = "api"]
    /\ dirSeen' = [dirSeen EXCEPT ![r] = NoDirectory]
    /\ documents' = [documents EXCEPT ![r] = docs]
    /\ conn' = [conn EXCEPT ![r] = "open"]
    /\ autocommit' = [autocommit EXCEPT ![r] = ac]
    /\ rerun' = [rerun EXCEPT ![r] = again]
    /\ outcome' = [outcome EXCEPT ![r] = ""]
    /\ pc' = [pc EXCEPT ![r] = LoopHead(1, docs)]
    /\ UNCHANGED <<chunkVars, storeVars, queryVars>>

StartApi(r, docs, ac) ==
    /\ pc[r] = "idle"
    /\ EnterApi(r, docs, ac, FALSE)

\* after a run that committed, the same input is ingested again: the script
\* is started again on the unchanged directory, or insert_embeddings is
\* called again with the same list
Rerun(r) ==
    /\ pc[r] = "done"
    /\ outcome[r] = "committed"
    /\ IF entry[r] = "main"
       THEN EnterMain(r, dirSeen[r], TRUE)
       ELSE EnterApi(r, documents[r], autocommit[r], TRUE)

\* counting documents where chunks are meant
ChunkCountOne(cs) == 1

\* total_chunks += len(chunks)
ChunkCount(cs) == Len(cs)

\* the existence test: a stored filename is skipped and counted, any other
\* goes on to the INSERT
ExistsCheck(r) ==
    /\ pc[r] = "exists"
    /\ "doc_contents" \in ddl
    /\ LET f == documents[r][idx[r]][1]
       IN  IF AlreadyStored(r, f)
           THEN /\ skipped_docs' = [skipped_docs EXCEPT ![r] = @ + 1]
                /\ report' = [report EXCEPT ![r] = Append(@, <<"Skipped", f>>)]
                /\ idx' = [idx EXCEPT ![r] = @ + 1]
                /\ pc' = [pc EXCEPT ![r] = LoopHead(idx[r] + 1, documents[r])]
           ELSE /\ pc' = [pc EXCEPT ![r] = "insert_doc"]
                /\ UNCHANGED <<skipped_docs, report, idx>>
    /\ UNCHANGED <<chunkVars, storeVars, entry, dirSeen, outcome, rolledBack,
                   documents, chunks, chunk_id, total_chunks, inserted_docs,
                   connVars, txVars, histVars, queryVars>>

\* INSERT INTO doc_contents succeeds; the text is chunked; a text without
\* chunks ends the pair at once
InsertDoc(r) ==
    /\ pc[r] = "insert_doc"
    /\ "doc_contents" \in ddl
    /\ LET f  == documents[r][idx[r]][1]
           t  == documents[r][idx[r]][2]
           cs == chunk_document_by_paragraphs(t)
       IN  /\ WriteDoc(r, DocRow(f, t))
           /\ chunks' = [chunks EXCEPT ![r] = cs]
           /\ IF cs = <<>>
              THEN /\ total_chunks' = [total_chunks EXCEPT ![r] = @ + ChunkCount(cs)]
                   /\ inserted_docs' = [inserted_docs EXCEPT ![r] = @ + 1]
                   /\ report' = [report EXCEPT ![r] = Append(@, <<"Inserted", f>>)]
                   /\ idx' = [idx EXCEPT ![r] = @ + 1]
                   /\ pc' = [pc EXCEPT ![r] = LoopHead(idx[r] + 1, documents[r])]
                   /\ UNCHANGED chunk_id
              ELSE /\ chunk_id' = [chunk_id EXCEPT ![r] = 1]
                   /\ pc' = [pc EXCEPT ![r] = "insert_chunk"]
                   /\ UNCHANGED <<total_chunks, inserted_docs, report, idx>>
    /\ UNCHANGED <<chunkVars, document_embeddings, ddl, entry, dirSeen, outcome,
                   rolledBack, documents, skipped_docs, connVars, txEmbs, histVars,
                   queryVars>>

\* INSERT INTO document_embeddings succeeds for chunk chunk_id; after the last
\* chunk the pair is counted
InsertChunk(r) ==
    /\ pc[r] = "insert_chunk"
    /\ "document_embeddings" \in ddl
    /\ LET f == documents[r][idx[r]][1]
       IN  /\ WriteEmb(r, EmbRow(f, chunk_id[r], chunks[r][chunk_id[r]]))
           /\ IF chunk_id[r] = Len(chunks[r])
              THEN /\ total_chunks' = [total_chunks EXCEPT ![r] = @ + ChunkCount(chunks[r])]
                   /\ inserted_docs' = [inserted_docs EXCEPT ![r] = @ + 1]
                   /\ report' = [report EXCEPT ![r] = Append(@, <<"Inserted", f>>)]
                   /\ idx' = [idx EXCEPT ![r] = @ + 1]
                   /\ pc' = [pc EXCEPT ![r] = LoopHead(idx[r] + 1, documents[r])]
                   /\ UNCHANGED chunk_id
              ELSE /\ chunk_id' = [chunk_id EXCEPT ![r] = @ + 1]
                   /\ UNCHANGED <<pc, total_chunks, inserted_docs, report, idx>>
    /\ UNCHANGED <<chunkVars, doc_contents, ddl, entry, dirSeen, outcome, rolledBack,
                   documents, chunks, skipped_docs, connVars, txDocs, histVars,
                   queryVars>>

\* conn.commit() succeeds and the totals are printed
Commit(r) ==
    /\ pc[r] = "commit"
    /\ doc_contents' = CommitRows(doc_contents, txDocs[r])
    /\ document_embeddings' = CommitRows(document_embeddings, txEmbs[r])
    /\ txDocs' = [txDocs EXCEPT ![r] = <<>>]
    /\ txEmbs' = [txEmbs EXCEPT ![r] = <<>>]
    /\ outcome' = [outcome EXCEPT ![r] = "committed"]
    /\ pc' = [pc EXCEPT ![r] = IF entry[r] = "main" THEN "close" ELSE "done"]
    /\ UNCHANGED <<chunkVars, ddl, entry, dirSeen, rolledBack, loopVars, countVars,
                   connVars, histVars, queryVars>>

\* a statement inside the try raises (the SELECT, an INSERT, or the commit);
\* the failed statement changes nothing; control goes to the except clause
StatementFails(r) ==
    /\ pc[r] \in {"exists", "insert_doc", "insert_chunk", "commit"}
    /\ pc' = [pc EXCEPT ![r] = "rollback"]
    /\ UNCHANGED <<chunkVars, storeVars, entry, dirSeen, outcome, rolledBack,
                   loopVars, countVars, connVars, txVars, histVars, queryVars>>

\* except Exception: conn.rollback() discards the open transaction; rows
\* already committed (autocommit) are not touched
Rollback(r) ==
    /\ pc[r] = "rollback"
    /\ txDocs' = [txDocs EXCEPT ![r] = <<>>]
    /\ txEmbs' = [txEmbs EXCEPT ![r] = <<>>]
    /\ rolledBack' = [rolledBack EXCEPT ![r] = TRUE]
    /\ pc' = [pc EXCEPT ![r] = "raise"]
    /\ UNCHANGED <<chunkVars, storeVars, entry, dirSeen, outcome, loopVars,
                   countVars, connVars, histVars, queryVars>>

\* raise: the error reaches the caller (main prints it and goes to its finally)
Reraise(r) ==
    /\ pc[r] = "raise"
    /\ outcome' = [outcome EXCEPT ![r] = "insert_error"]
    /\ pc' = [pc EXCEPT ![r] = IF entry[r] = "main" THEN "close" ELSE "done"]
    /\ UNCHANGED <<chunkVars, storeVars, entry, dirSeen, rolledBack, loopVars,
                   countVars, connVars, txVars, histVars, queryVars>>

\* main's finally: conn.close()
Close(r) ==
    /\ pc[r] = "close"
    /\ conn' = [conn EXCEPT ![r] = "closed"]
    /\ pc' = [pc EXCEPT ![r] = "done"]
    /\ UNCHANGED <<chunkVars, storeVars, entry, dirSeen, outcome, rolledBack,
                   loopVars, countVars, autocommit, txVars, histVars,
                   queryVars>>

\* the run is over; the writer is free for its next run
Finish(r) ==
    /\ pc[r] = "done"
    /\ FreshRun(r)
    /\ pc' = [pc EXCEPT ![r] = "idle"]
    /\ entry' = [entry EXCEPT ![r] = "main"]
    /\ dirSeen' = [dirSeen EXCEPT ![r] = NoDirectory]
    /\ documents' = [documents EXCEPT ![r] = <<>>]
    /\ conn' = [conn EXCEPT ![r] = "none"]
    /\ autocommit' = [autocommit EXCEPT ![r] = TRUE]
    /\ outcome' = [outcome EXCEPT ![r] = ""]
    /\ rerun' = [rerun EXCEPT ![r] = FALSE]
    /\ UNCHANGED <<chunkVars, storeVars, queryVars>>

\* the steps of a run once it has started
RunStep(r) ==
    \/ Connect(r)
    \/ ConnectFail(r)
    \/ UseWarehouse(r)
    \/ UseWarehouseFail(r)
    \/ EnsureDatabaseAndSchema(r)
    \/ EnsureDatabaseAndSchemaFail(r)
    \/ CreateTables(r)
    \/ CreateTablesFail(r)
    \/ ExistsCheck(r)
    \/ InsertDoc(r)
    \/ InsertChunk(r)
    \/ Commit(r)
    \/ StatementFails(r)
    \/ Rollback(r)
    \/ Reraise(r)
    \/ Close(r)

---------------------------------------------------------------------------
(* A query run: the Get answer button of ask_snowflake_rag.py *)

Questions == {<<>>, <<SP>>, <<"a">>}

AllObjects == {"database", "schema", "doc_contents", "document_embeddings"}

\* the rows a committed ingestion of the list docs leaves in doc_contents
DocRowsOf(docs) == [k \in 1..Len(docs) |-> DocRow(docs[k][1], docs[k][2])]

\* the rows a committed ingestion of one pair leaves in document_embeddings
EmbRowsOfPair(d) ==
    [k \in 1..Len(chunk_document_by_paragraphs(d[2])) |->
        EmbRow(d[1], k, chunk_document_by_paragraphs(d[2])[k])]

RECURSIVE EmbRowsOf(_)
EmbRowsOf(docs) ==
    IF docs = <<>> THEN <<>>
    ELSE EmbRowsOfPair(Head(docs)) \o EmbRowsOf(Tail(docs))

\* the stores a query may find: nothing created yet, the schema without its
\* tables, empty tables, and what one committed run of main() leaves
QueryStores ==
    {[docs |-> <<>>, embs |-> <<>>, ddl |-> {}],
     [docs |-> <<>>, embs |-> <<>>, ddl |-> {"database", "schema"}],
     [docs |-> <<>>, embs |-> <<>>, ddl |-> AllObjects]}
        \cup {[docs |-> DocRowsOf(l), embs |-> EmbRowsOf(l), ddl |-> AllObjects] :
                l \in UNION {read_documents(d) : d \in DirStates \ {NoDirectory}}}

\* SELECT filename, chunk_id, document_text, similarity ... ORDER BY similarity
\* DESC LIMIT top_k: the first k rows in the order the similarity gives, which
\* depends on the question; a row is returned as (filename, chunk_id, text)
\* and its score is its place in the list
TopK(rows, k) ==
    LET n == IF k < Len(rows) THEN k ELSE Len(rows)
    IN  {[i \in 1..n |-> <<rows[p[i]].filename, rows[p[i]].chunk_id,
                           rows[p[i]].document_text>>] :
            p \in {q \in [1..n -> 1..Len(rows)] :
                     \A i, j \in 1..n : q[i] = q[j] => i = j}}

\* no test of the result: the answer is always requested
AfterRetrieveAlwaysGenerate(rows) == "generate"

\* if not chunks: st.info(...); return
AfterRetrieve(rows) == IF rows = <<>> THEN "no_chunks" ELSE "generate"

\* the button is pressed; a blank question gets a warning and nothing else
ClickGetAnswer(q, k) ==
    /\ qpc = "idle"
    /\ question' = q
    /\ top_k' = k
    /\ IF Strip(q) = <<>>
       THEN /\ shown' = "warning"
            /\ qpc' = "done"
       ELSE /\ shown' = ""
            /\ qpc' = "connect"
    /\ UNCHANGED <<chunkVars, storeVars, ingestVars, qconn, retrieved, qchunks,
                   completeCalls, qraise>>

\* get_snowflake_connection() returns
QConnect ==
    /\ qpc = "connect"
    /\ qconn' = "open"
    /\ qpc' = "set_context"
    /\ UNCHANGED <<chunkVars, storeVars, ingestVars, question, top_k, retrieved,
                   qchunks, completeCalls, qraise, shown>>

\* get_snowflake_connection() raises: the outer except shows the error
QConnectFail ==
    /\ qpc = "connect"
    /\ shown' = "error"
    /\ qpc' = "done"
    /\ UNCHANGED <<chunkVars, storeVars, ingestVars, question, top_k, qconn,
                   retrieved, qchunks, completeCalls, qraise>>

\* set_context: USE DATABASE, USE SCHEMA succeed
SetContext ==
    /\ qpc = "set_context"
    /\ {"database", "schema"} \subseteq ddl
    /\ qpc' = "retrieve"
    /\ UNCHANGED <<chunkVars, storeVars, ingestVars, question, top_k, qconn,
                   retrieved, qchunks, completeCalls, qraise, shown>>

\* retrieve_similar_chunks returns its rows; without rows the page says so
\* and main returns through the finally
Retrieve ==
    /\ qpc = "retrieve"
    /\ "document_embeddings" \in ddl
    /\ \E rows \in TopK(document_embeddings, top_k) :
          /\ qchunks' = rows
          /\ IF AfterRetrieve(rows) = "no_chunks"
             THEN /\ shown' = "no_chunks"
                  /\ qpc' = "close"
             ELSE /\ qpc' = "generate"
                  /\ UNCHANGED shown
    /\ retrieved' = TRUE
    /\ UNCHANGED <<chunkVars, storeVars, ingestVars, question, top_k, qconn,
                   completeCalls, qraise>>

\* generate_answer: SNOWFLAKE.CORTEX.COMPLETE is called and answers
GenerateAnswer ==
    /\ qpc = "generate"
    /\ completeCalls' = completeCalls + 1
    /\ qpc' = "close"
    /\ UNCHANGED <<chunkVars, storeVars, ingestVars, question, top_k, qconn,
                   retrieved, qchunks, qraise, shown>>

\* generate_answer: SNOWFLAKE.CORTEX.COMPLETE is called and raises
GenerateAnswerFail ==
    /\ qpc = "generate"
    /\ completeCalls' = completeCalls + 1
    /\ qraise' = TRUE
    /\ qpc' = "close"
    /\ UNCHANGED <<chunkVars, storeVars, ingestVars, question, top_k, qconn,
                   retrieved, qchunks, shown>>

\* a statement of set_context or of retrieve_similar_chunks raises
QueryStatementFails ==
    /\ qpc \in {"set_context", "retrieve"}
    /\ qraise' = TRUE
    /\ qpc' = "close"
    /\ UNCHANGED <<chunkVars, storeVars, ingestVars, question, top_k, qconn,
                   retrieved, qchunks, completeCalls, shown>>

\* finally: conn.close(); then the exception reaches the outer except, or
\* main has returned (no chunks), or the answer is shown
QClose ==
    /\ qpc = "close"
    /\ qconn' = "closed"
    /\ shown' = IF qraise THEN "error"
                ELSE IF shown = "no_chunks" THEN "no_chunks" ELSE "answer"
    /\ qpc' = "done"
    /\ UNCHANGED <<chunkVars, storeVars, ingestVars, question, top_k, retrieved,
                   qchunks, completeCalls, qraise>>

\* the page is ready for the next question
QFinish ==
    /\ qpc = "done"
    /\ qpc' = "idle"
    /\ question' = <<>>
    /\ top_k' = 1
    /\ qconn' = "none"
    /\ retrieved' = FALSE
    /\ qchunks' = <<>>
    /\ completeCalls' = 0
    /\ qraise' = FALSE
    /\ shown' = ""
    /\ UNCHANGED <<chunkVars, storeVars, ingestVars>>

---------------------------------------------------------------------------
(* The chunker on its own: any text in, the chunk list out *)

ChunkIdle ==
    /\ text = <<>>
    /\ paragraphs = <<>>
    /\ cpc = "input"

QueryIdle ==
    /\ qpc = "idle"
    /\ question = <<>>
    /\ top_k = 1
    /\ qconn = "none"
    /\ retrieved = FALSE
    /\ qchunks = <<>>
    /\ completeCalls = 0
    /\ qraise = FALSE
    /\ shown = ""

CallChunker ==
    /\ cpc = "input"
    /\ paragraphs' = chunk_document_by_paragraphs(text)
    /\ cpc' = "returned"
    /\ UNCHANGED <<text, storeVars, ingestVars, queryVars>>

InitChunk ==
    /\ text \in TextsUpTo(MaxLen)
    /\ paragraphs = <<>>
    /\ cpc = "input"
    /\ IngestInit
    /\ QueryIdle

NextChunk == CallChunker

SpecChunk == InitChunk /\ [][NextChunk]_vars

---------------------------------------------------------------------------
(* Single-writer ingestion: one writer, run after run *)

TheWriter == CHOOSE r \in Writers : \A q \in Writers : r <= q

Init ==
    /\ ChunkIdle
    /\ IngestInit
    /\ QueryIdle

Next ==
    \/ \E d \in DirStates : StartMain(TheWriter, d)
    \/ \E docs \in ApiInputs, ac \in BOOLEAN : StartApi(TheWriter, docs, ac)
    \/ RunStep(TheWriter)
    \/ Rerun(TheWriter)
    \/ Finish(TheWriter)

Spec == Init /\ [][Next]_vars

---------------------------------------------------------------------------
(* Two writers at once, each running main() once, on an empty store *)

\* the directories the two concurrent runs read: both hold f1.txt
ConcDirs ==
    {[exists |-> TRUE, files |-> [f \in Files |-> IF f = "f1.txt" THEN TwoParagraphs ELSE Absent]],
     [exists |-> TRUE, files |-> [f \in Files |-> IF f = "f1.txt" THEN OneParagraph ELSE TwoParagraphs]]}

NextConc ==
    \E r \in Writers :
        \/ \E d \in ConcDirs : StartMain(r, d)
        \/ RunStep(r)

SpecConc == Init /\ [][NextConc]_vars

---------------------------------------------------------------------------
(* Query runs, one after the other, against a store that ingestion left *)

InitQuery ==
    /\ ChunkIdle
    /\ QueryIdle
    /\ \E st \in QueryStores :
          /\ doc_contents = st.docs
          /\ document_embeddings = st.embs
          /\ ddl = st.ddl
    /\ WritersIdle

NextQuery ==
    \/ \E q \in Questions, k \in 1..MaxTopK : ClickGetAnswer(q, k)
    \/ QConnect
    \/ QConnectFail
    \/ SetContext
    \/ Retrieve
    \/ GenerateAnswer
    \/ GenerateAnswerFail
    \/ QueryStatementFails
    \/ QClose
    \/ QFinish

SpecQuery == InitQuery /\ [][NextQuery]_vars

---------------------------------------------------------------------------
(* Vocabulary of the properties *)

\* rows of doc_contents with file name f
CountDocs(rows, f) == Cardinality({k \in 1..Len(rows) : rows[k].file_name = f})

\* rows of document_embeddings for chunk i of file f
CountEmbs(rows, f, i) ==
    Cardinality({k \in 1..Len(rows) : rows[k].filename = f /\ rows[k].chunk_id = i})

\* the chunk indices stored for file f
ChunkIdsOf(rows, f) == {rows[k].chunk_id : k \in {j \in 1..Len(rows) : rows[j].filename = f}}

\* the rows of s after its first n
RowsAfter(s, n) == SubSeq(s, n + 1, Len(s))

\* the paragraphs of the documents in rows, added up
RECURSIVE SumParagraphs(_)
SumParagraphs(rows) ==
    IF rows = <<>> THEN 0
    ELSE Len(chunk_document_by_paragraphs(Head(rows).content)) + SumParagraphs(Tail(rows))

\* position k of t lies in a maximal run of whitespace holding two newlines
InSeparator(t, k) ==
    /\ IsSpace(t[k])
    /\ LET lo == SetMin({a \in 1..k : \A j \in a..k : IsSpace(t[j])})
           hi == SetMax({b \in k..Len(t) : \A j \in k..b : IsSpace(t[j])})
       IN  Cardinality({j \in lo..hi : t[j] = NL}) >= 2

HasSeparator(t) == \E k \in 1..Len(t) : InSeparator(t, k)

\* the text cut at its separators: the maximal stretches outside them, in
\* order, each trimmed, the empty ones dropped
CutAtSeparators(t) ==
    LET starts == {a \in 1..Len(t) :
                      ~InSeparator(t, a) /\ (a = 1 \/ InSeparator(t, a - 1))}
        endOf(a) == SetMax({b \in a..Len(t) : \A j \in a..b : ~InSeparator(t, j)})
        nth(i) == CHOOSE a \in starts : Cardinality({x \in starts : x < a}) = i - 1
        segs == [i \in 1..Cardinality(starts) |-> Strip(SubSeq(t, nth(i), endOf(nth(i))))]
    IN  SelectSeq(segs, LAMBDA p : p # <<>>)

\* s holds a blank line: two newlines with nothing but whitespace between
HasBlankLine(s) ==
    \E i, j \in 1..Len(s) :
        i < j /\ s[i] = NL /\ s[j] = NL /\ \A k \in (i + 1)..(j - 1) : IsSpace(s[k])

\* the directory yields no document: it holds no file with a character that
\* is not whitespace
NoContent(d) ==
    \A f \in Files :
        d.files[f] = Absent \/ \A k \in 1..Len(d.files[f]) : IsSpace(d.files[f][k])

---------------------------------------------------------------------------
(* The claims *)

\* C1: a run of insert_embeddings in which a store statement failed leaves the
\* committed store as it was before the run, rollback precedes the re-raise,
\* and commit is executed only after every pair was processed without error.
C1_FailedRunCommitsNothing ==
    \A r \in Writers :
        /\ (pc[r] = "raise" \/ outcome[r] = "insert_error")
              => /\ doc_contents = before[r].docs
                 /\ document_embeddings = before[r].embs
        /\ outcome[r] = "insert_error" => rolledBack[r]
        /\ outcome[r] = "committed" => idx[r] > Len(documents[r]) /\ ~rolledBack[r]

\* C2: a run that repeats the input of the run before it, which committed,
\* adds no row to either table, leaves the store as that run left it, and
\* reports inserted = 0, total chunks = 0 and skipped = number of pairs.
C2_RerunIsIdempotent ==
    \A r \in Writers :
        rerun[r] =>
            /\ doc_contents = before[r].docs
            /\ document_embeddings = before[r].embs
            /\ txDocs[r] = <<>> /\ txEmbs[r] = <<>>
            /\ inserted_docs[r] = 0
            /\ total_chunks[r] = 0
            /\ outcome[r] = "committed" => skipped_docs[r] = Len(documents[r])

C2_Witness ==
    \E r \in Writers :
        /\ rerun[r] /\ outcome[r] = "committed"
        /\ Len(documents[r]) = 2 /\ skipped_docs[r] = 2
        /\ Len(doc_contents) = 2

\* no filename twice in doc_contents, no (filename, chunk index) twice in
\* document_embeddings, the rows of the open transaction included
C3_AtMostOnePerKey ==
    \A f \in Files :
        /\ CountDocs(doc_contents \o txDocs[TheWriter], f) <= 1
        /\ LET rows == document_embeddings \o txEmbs[TheWriter]
           IN  \A k \in 1..Len(rows) :
                  rows[k].filename = f => CountEmbs(rows, f, rows[k].chunk_id) <= 1

\* the existence test of a filename that is present (committed, or written
\* earlier in this run), unless the SELECT itself fails, skips the pair:
\* nothing is written, skipped is counted, the loop moves on
C3_SkipWritesNothing ==
    \A r \in Writers :
        (/\ pc[r] = "exists"
         /\ CountDocs(doc_contents \o txDocs[r], documents[r][idx[r]][1]) > 0
         /\ pc'[r] # "rollback")
            => /\ UNCHANGED <<storeVars, txVars, inserted_docs, total_chunks>>
               /\ skipped_docs'[r] = skipped_docs[r] + 1
               /\ idx'[r] = idx[r] + 1
               /\ pc'[r] \in {"exists", "commit"}

\* C3: with a single writer the store (committed rows and the rows of the
\* open transaction) never holds two Document rows for one filename nor two
\* Chunk rows for one (filename, chunk index); and a pair whose filename is
\* already present is skipped without any write.
C3_SingleWriterNoDuplicates == []C3_AtMostOnePerKey /\ [][C3_SkipWritesNothing]_vars

C3_Witness ==
    \E r \in Writers :
        /\ report[r] = <<<<"Inserted", "f1.txt">>, <<"Skipped", "f1.txt">>>>
        /\ ~autocommit[r]
        /\ outcome[r] = "committed"
        /\ before[r].docs # <<>>

\* C4: in the committed store every Document row with filename f, whose text
\* has N paragraphs, has Chunk rows with indices exactly 1..N, chunk i holding
\* paragraph i; and a chunk row is written only when its document row is.
C4_ChunksComplete ==
    /\ \A k \in 1..Len(doc_contents) :
          LET f  == doc_contents[k].file_name
              cs == chunk_document_by_paragraphs(doc_contents[k].content)
          IN  /\ ChunkIdsOf(document_embeddings, f) = 1..Len(cs)
              /\ \A j \in 1..Len(document_embeddings) :
                    document_embeddings[j].filename = f =>
                        /\ document_embeddings[j].chunk_id \in 1..Len(cs)
                        /\ document_embeddings[j].document_text
                               = cs[document_embeddings[j].chunk_id]
    /\ \A r \in Writers :
          \A j \in 1..Len(document_embeddings \o txEmbs[r]) :
              CountDocs(doc_contents \o txDocs[r],
                        (document_embeddings \o txEmbs[r])[j].filename) > 0

\* C5: when retrieval returned no rows, the completion service is not called
\* in that run and the run ends showing no-chunks-found, not an error and not
\* an answer.
C5_NoCompletionWithoutChunks ==
    (retrieved /\ qchunks = <<>>) =>
        /\ completeCalls = 0
        /\ qpc \in {"close", "done"}
        /\ ~qraise
        /\ shown = "no_chunks"

C5_Witness ==
    /\ retrieved /\ qchunks = <<>>
    /\ qpc = "done" /\ shown = "no_chunks" /\ qconn = "closed"
    /\ doc_contents = <<>>

\* C6: a run that has ended has closed the connection it opened, whichever
\* way it ended (ingestion by main(), and the query run).
C6_ConnectionClosedAtEnd ==
    /\ \A r \in Writers : (entry[r] = "main" /\ pc[r] = "done") => conn[r] # "open"
    /\ qpc = "done" => qconn # "open"

\* C7: when the documents directory is missing, or holds no file with
\* non-whitespace content, main() ends (FileNotFoundError, respectively "No
\* documents found") without a connection and without any change of the store.
C7_NoInputNoStoreAccess ==
    \A r \in Writers :
        (entry[r] = "main" /\ pc[r] # "idle"
            /\ (~dirSeen[r].exists \/ NoContent(dirSeen[r])))
            => /\ pc[r] = "done"
               /\ outcome[r] = IF dirSeen[r].exists THEN "no_documents" ELSE "dir_missing"
               /\ conn[r] = "none"
               /\ Store = before[r]
               /\ txDocs[r] = <<>> /\ txEmbs[r] = <<>>

C7_Witness ==
    \E r \in Writers :
        /\ pc[r] = "done" /\ outcome[r] = "no_documents"
        /\ dirSeen[r].exists
        /\ dirSeen[r].files["f1.txt"] = BlankText
        /\ doc_contents # <<>>

\* C8 as stated: the chunks are the text cut at its separators, each chunk
\* non-empty, trimmed and without a blank line; a text without a separator
\* yields one chunk, the whole trimmed text; an all-whitespace text yields none.
C8_AsStated ==
    cpc = "returned" =>
        /\ paragraphs = CutAtSeparators(text)
        /\ \A k \in 1..Len(paragraphs) :
              /\ paragraphs[k] # <<>>
              /\ Strip(paragraphs[k]) = paragraphs[k]
              /\ ~HasBlankLine(paragraphs[k])
        /\ ~HasSeparator(text) => paragraphs = <<Strip(text)>>
        /\ Strip(text) = <<>> => paragraphs = <<>>

\* C8 as amended: the same, the one-chunk case being a text without a
\* separator that holds a character which is not whitespace.
C8_ChunksAreTrimmedSegments ==
    cpc = "returned" =>
        /\ paragraphs = CutAtSeparators(text)
        /\ \A k \in 1..Len(paragraphs) :
              /\ paragraphs[k] # <<>>
              /\ Strip(paragraphs[k]) = paragraphs[k]
              /\ ~HasBlankLine(paragraphs[k])
        /\ (~HasSeparator(text) /\ Strip(text) # <<>>) => paragraphs = <<Strip(text)>>
        /\ Strip(text) = <<>> => paragraphs = <<>>

C8_Witness ==
    /\ cpc = "returned"
    /\ text = <<"a", NL, SP, NL, "b">>
    /\ paragraphs = <<<<"a">>, <<"b">>>>

\* C9: two concurrent runs that both committed leave, for every filename, as
\* many Document rows as runs that inserted it (each after finding it absent):
\* two rows when both did.
C9_BothInsertsAreKept ==
    (\A r \in Writers : pc[r] = "done" /\ outcome[r] = "committed") =>
        \A f \in Files :
            CountDocs(doc_contents, f)
                = Cardinality({r \in Writers :
                      \E k \in 1..Len(report[r]) : report[r][k] = <<"Inserted", f>>})

C9_Witness ==
    /\ \A r \in Writers :
          /\ pc[r] = "done" /\ outcome[r] = "committed"
          /\ ~autocommit[r]
          /\ report[r][1] = <<"Inserted", "f1.txt">>
    /\ CountDocs(doc_contents, "f1.txt") = 2
    /\ CountEmbs(document_embeddings, "f1.txt", 1) = 2

\* C10: when a run has committed, inserted + skipped is the number of pairs,
\* inserted is the number of Document rows the run added, and total chunks is
\* the number of Chunk rows it added, the paragraphs of the added documents.
C10_CountsMatch ==
    \A r \in Writers :
        outcome[r] = "committed" =>
            /\ inserted_docs[r] + skipped_docs[r] = Len(documents[r])
            /\ inserted_docs[r] = Len(doc_contents) - Len(before[r].docs)
            /\ total_chunks[r] = Len(document_embeddings) - Len(before[r].embs)
            /\ total_chunks[r]
                   = SumParagraphs(RowsAfter(doc_contents, Len(before[r].docs)))

C10_Witness ==
    \E r \in Writers :
        /\ outcome[r] = "committed"
        /\ inserted_docs[r] = 1 /\ skipped_docs[r] = 1 /\ total_chunks[r] = 2
        /\ Len(document_embeddings) = Len(before[r].embs) + 2

=============================================================================
